---------------------------- MODULE Spec2Model ----------------------------
(***************************************************************************)
(* Model of the accreditation-registry ingestion pipeline of               *)
(* src/boba.py (first schema variant: typed organizations, programs) and   *)
(* src/proektMAI.py (second schema variant: certificates, supplements,     *)
(* programs, decisions, entrepreneurs).                                    *)
(*                                                                         *)
(* Text is a sequence of tokens.  A token is a morpheme of the Russian     *)
(* keywords of the source, transliterated, so that Python's substring      *)
(* test `k in s` is the contiguous-subsequence test on tokens: for         *)
(* instance "zaochnaya" is <<"za","ochnaya">> and so contains the keyword   *)
(* <<"ochnaya">>, exactly as the source strings do.                        *)
(***************************************************************************)
EXTENDS Naturals, Sequences, FiniteSets, TLC

(***************************************************************************)
(* Strings                                                                 *)
(***************************************************************************)

\* str.lower() on one token: capitalised tokens map to their lower-case form
LowerTok(t) ==
    CASE t = "Licey" -> "licey"
      [] t = "Universitet" -> "universitet"
      [] t = "Kolledzh" -> "kolledzh"
      [] t = "Za" -> "za"
      [] t = "Ochnaya" -> "ochnaya"
      [] t = "Bakalavr" -> "bakalavr"
      [] t = "Magistr" -> "magistr"
      [] OTHER -> t

\* str.lower()
Lower(s) == [i \in 1..Len(s) |-> LowerTok(s[i])]

\* whitespace tokens removed by str.strip()
IsSpace(t) == t \in {" ", "\n"}

RECURSIVE LStrip(_)
LStrip(s) == IF s # <<>> /\ IsSpace(Head(s)) THEN LStrip(Tail(s)) ELSE s

RECURSIVE RStrip(_)
RStrip(s) ==
    IF s # <<>> /\ IsSpace(s[Len(s)]) THEN RStrip(SubSeq(s, 1, Len(s) - 1)) ELSE s

\* str.strip()
Strip(s) == RStrip(LStrip(s))

\* Python `k in s` for strings: k occurs as a contiguous run of s
Contains(s, k) ==
    \E i \in 1..(Len(s) + 1) :
        /\ i + Len(k) - 1 <= Len(s)
        /\ SubSeq(s, i, i + Len(k) - 1) = k

\* any(x in s for x in ks)
ContainsAny(s, ks) == \E k \in ks : Contains(s, k)

(***************************************************************************)
(* XML elements: the result of elem.find(tag).  present = FALSE is None;   *)
(* hasText = FALSE is an element whose .text is None.                      *)
(***************************************************************************)
NoElem == [present |-> FALSE, hasText |-> FALSE, text |-> <<>>]
EmptyElem == [present |-> TRUE, hasText |-> FALSE, text |-> <<>>]
TextElem(s) == [present |-> TRUE, hasText |-> TRUE, text |-> s]

(***************************************************************************)
(* Field coercion, boba.py                                                 *)
(***************************************************************************)

\* boba.py safe_text(element, default)
safe_text(element, default) ==
    IF element.present /\ element.hasText THEN Strip(element.text) ELSE default

\* a coercion that takes every text other than "0" for true
safe_bool_Truthy(element) ==
    IF ~element.present \/ ~element.hasText THEN "None"
    ELSE IF Strip(element.text) = <<"0">> THEN "False"
    ELSE "True"

\* a coercion that takes an absent element for false
safe_bool_DefaultFalse(element) ==
    IF ~element.present \/ ~element.hasText THEN "False"
    ELSE LET text == Strip(element.text)
         IN  IF text = <<"1">> THEN "True"
             ELSE IF text = <<"0">> THEN "False"
             ELSE "None"

\* boba.py / proektMAI.py safe_bool: "True", "False" or "None"
safe_bool(element) ==
    IF ~element.present \/ ~element.hasText THEN "None"
    ELSE LET text == Strip(element.text)
         IN  IF text = <<"1">> THEN "True"
             ELSE IF text = <<"0">> THEN "False"
             ELSE "None"

(***************************************************************************)
(* Date coercion, boba.py / proektMAI.py safe_date.  A date text is a      *)
(* sequence of tokens: digit groups, the separators "-", ".", "/", ":",    *)
(* " ", and a timezone offset, sign included ("+03:00", "-03:00").         *)
(***************************************************************************)
Years == {"2020"}
Months == {"01", "12"}
Days == {"01", "12", "31"}
Clock == {"00", "10", "23"}
Offsets == {"+03:00", "-03:00"}

\* the formats of the fmts parameter, in its order
fmts ==
    << <<"%Y", "-", "%m", "-", "%d">>,
       <<"%d", ".", "%m", ".", "%Y">>,
       <<"%Y", "/", "%m", "/", "%d">>,
       <<"%Y", "-", "%m", "-", "%d", " ", "%H", ":", "%M", ":", "%S">>,
       <<"%Y", "-", "%m", "-", "%d", " ", "%H", ":", "%M", ":", "%S", "%z">> >>

\* a token of the text fits a directive or literal of the format
Fits(tok, f) ==
    CASE f = "%Y" -> tok \in Years
      [] f = "%m" -> tok \in Months
      [] f = "%d" -> tok \in Days
      [] f \in {"%H", "%M", "%S"} -> tok \in Clock
      [] f = "%z" -> tok \in Offsets
      [] OTHER -> tok = f

NoDate == [some |-> FALSE, y |-> "", m |-> "", d |-> ""]

\* datetime.strptime(text, fmt).date(): NoDate stands for ValueError
strptime(text, fmt) ==
    IF Len(text) = Len(fmt) /\ \A i \in 1..Len(fmt) : Fits(text[i], fmt[i])
    THEN LET at(f) == text[CHOOSE i \in 1..Len(fmt) : fmt[i] = f]
         IN  [some |-> TRUE, y |-> at("%Y"), m |-> at("%m"), d |-> at("%d")]
    ELSE NoDate

\* text.split('+')[0]: the text before the first '+'
RECURSIVE BeforePlus(_)
BeforePlus(text) ==
    IF text = <<>> \/ Head(text) = "+03:00" THEN <<>>
    ELSE <<Head(text)>> \o BeforePlus(Tail(text))

\* the loop over fmts from format i: the first format that parses
RECURSIVE TryFormats(_, _)
TryFormats(text, i) ==
    IF i > Len(fmts) THEN NoDate
    ELSE IF strptime(text, fmts[i]).some THEN strptime(text, fmts[i])
    ELSE TryFormats(text, i + 1)

\* boba.py / proektMAI.py safe_date
safe_date(element) ==
    IF ~element.present \/ ~element.hasText THEN NoDate
    ELSE LET text == Strip(element.text)
             cut == IF \E i \in 1..Len(text) : text[i] = "+03:00"
                    THEN Strip(BeforePlus(text)) ELSE text
         IN  TryFormats(cut, 1)

(***************************************************************************)
(* Keyword lists of the classifier, boba.py                                *)
(***************************************************************************)

\* 'shkola', 'licey', 'gimnaziya', 'srednee obshcheobrazovatelnoe',
\* 'srednyaya obshcheobrazovatelnaya'
SecondaryMarkers ==
    { <<"shkola">>, <<"licey">>, <<"gimnaziya">>,
      <<"srednee", " ", "obshche", "obrazovatelnoe">>,
      <<"srednyaya", " ", "obshche", "obrazovatelnaya">> }

\* 'vuz', 'universitet', 'institut', 'vysshee uchebnoe zavedenie', 'akademiya', ...
HigherMarkers ==
    { <<"vuz">>, <<"universitet">>, <<"institut">>,
      <<"vysshee", " ", "uchebnoe", " ", "zavedenie">>, <<"akademiya">>,
      <<"federalnoe", " ", "gosudarstvennoe">>,
      <<"gosudarstvennoe", " ", "obrazovatelnoe">>,
      <<"nacionalnyy", " ", "issledovatelskiy">>,
      <<"tekhnologicheskiy", " ", "universitet">>,
      <<"vysshee", " ", "obrazovanie">>,
      <<"byudzhetnoe", " ", "obrazovatelnoe", " ", "uchrezhdenie">>,
      <<"avtonomnoe", " ", "obrazovatelnoe", " ", "uchrezhdenie">>,
      <<"gosudarstvennyy", " ", "universitet">> }

\* 'bakalavriat', 'magistratura', 'specialitet', 'aspirantura'
HigherLevelMarkers ==
    { <<"bakalavr", "iat">>, <<"magistr", "atura">>,
      <<"special", "itet">>, <<"aspirant", "ura">> }

\* 'kolledzh', 'tekhnikum'
CollegeMarkers == { <<"kolledzh">>, <<"tekhnikum">> }

(***************************************************************************)
(* A program element: the children process_program reads                  *)
(***************************************************************************)
ProgElem(level, form, acc, canc, susp) ==
    [EduLevelName |-> level, EducationForm |-> form,
     IsAccredited |-> acc, IsCanceled |-> canc, IsSuspended |-> susp]


(***************************************************************************)
(* Classifier, boba.py                                                     *)
(***************************************************************************)

\* a classifier that tests the higher-education markers first
OrgTypeCode_HigherFirst(type_name, programs) ==
    IF ContainsAny(type_name, HigherMarkers) THEN "higher"
    ELSE IF ContainsAny(type_name, SecondaryMarkers) THEN "secondary"
    ELSE IF \E i \in 1..Len(programs) :
               ContainsAny(Lower(safe_text(programs[i].EduLevelName, <<>>)),
                           HigherLevelMarkers)
         THEN "higher"
    ELSE IF Contains(type_name, <<"kolledzh">>) \/ Contains(type_name, <<"tekhnikum">>)
         THEN "secondary_pro" ELSE "secondary"

\* boba.py process_organization, lines 324-354: the organization type code
\* for a lower-cased type name and the record's program elements
OrgTypeCode(type_name, programs) ==
    LET org_type_code ==
            IF ContainsAny(type_name, SecondaryMarkers) THEN "secondary"
            ELSE IF ContainsAny(type_name, HigherMarkers) THEN "higher"
            ELSE IF programs # <<>>
                    /\ \E i \in 1..Len(programs) :
                          ContainsAny(Lower(safe_text(programs[i].EduLevelName, <<>>)),
                                      HigherLevelMarkers)
                 THEN "higher"
            ELSE "None"
    IN  IF org_type_code = "None"
        THEN IF Contains(type_name, <<"kolledzh">>) \/ Contains(type_name, <<"tekhnikum">>)
             THEN "secondary_pro" ELSE "secondary"
        ELSE org_type_code

\* boba.py process_program, lines 396-404: level_code ("None" when unmatched)
LevelCode(level_name) ==
    IF Contains(level_name, <<"bakalavr">>) THEN "bachelor"
    ELSE IF Contains(level_name, <<"magistr">>) THEN "master"
    ELSE IF Contains(level_name, <<"special", "ist">>)
            \/ Contains(level_name, <<"aspirant">>) THEN "specialist"
    ELSE "None"

\* boba.py process_program, lines 407-417: form_code
FormCode(form_name) ==
    IF Contains(form_name, <<"ochnaya">>) THEN "full_time"
    ELSE IF Contains(form_name, <<"za", "ochnaya">>) THEN "part_time"
    ELSE IF Contains(form_name, <<"ochno-", "za", "ochnaya">>)
            \/ Contains(form_name, <<"vechernyaya">>) THEN "mixed"
    ELSE "full_time"

(***************************************************************************)
(* Reference data, boba.py initialize_database                            *)
(***************************************************************************)
OrgTypeCodes == <<"higher", "secondary_pro", "secondary">>
EduLevelCodes == <<"bachelor", "master", "specialist", "postgraduate">>
EduFormCodes == <<"full_time", "part_time", "mixed", "remote">>

\* rows of one table
Table(rows, t) == {r \in rows : r.tbl = t}

\* INTEGER PRIMARY KEY of SQLite: the largest rowid of the table plus one
NextId(rows, t) ==
    LET ids == {r.id : r \in Table(rows, t)}
    IN  IF ids = {} THEN 1 ELSE (CHOOSE m \in ids : \A k \in ids : k <= m) + 1

\* session.query(T).filter_by(code=c).first(): the id of a row, 0 for None
FirstIdByCode(rows, t, c) ==
    LET hit == {r \in Table(rows, t) : r.code = c}
    IN  IF c = "None" \/ hit = {} THEN 0
        ELSE (CHOOSE r \in hit : \A q \in hit : r.id <= q.id).id

\* boba.py process_program: the EducationalProgram built from one element;
\* rows is what the session's queries see
process_program(prog_elem, rows) ==
    LET level_name == Lower(safe_text(prog_elem.EduLevelName, <<>>))
        form_name == Lower(safe_text(prog_elem.EducationForm, <<>>))
    IN  [tbl |-> "educational_programs", id |-> 0, organization_id |-> 0,
         EduLevelName |-> safe_text(prog_elem.EduLevelName, <<>>),
         IsAccredited |-> safe_bool(prog_elem.IsAccredited),
         IsCanceled |-> safe_bool(prog_elem.IsCanceled),
         IsSuspended |-> safe_bool(prog_elem.IsSuspended),
         level_id |-> FirstIdByCode(rows, "education_levels", LevelCode(level_name)),
         form_id |-> FirstIdByCode(rows, "education_forms", FormCode(form_name))]


(***************************************************************************)
(* Certificate elements of the document                                    *)
(***************************************************************************)

\* ActualEducationOrganization and the children the builders read
OrgElem(type_name, is_branch, inn, head) ==
    [present |-> TRUE, TypeName |-> type_name, IsBranch |-> is_branch,
     INN |-> inn, HeadEduOrgId |-> head]

\* cert_elem.find('ActualEducationOrganization') is None
NoOrgElem ==
    [present |-> FALSE, TypeName |-> NoElem, IsBranch |-> NoElem,
     INN |-> NoElem, HeadEduOrgId |-> NoElem]

\* one Certificate: its organization, its Supplement elements (each the
\* sequence of its EducationalProgram elements), the number of its
\* Decisions/Decision elements and its IndividualEntrepreneurINN element
Cert(org, supplements, decisions, ip_inn) ==
    [ActualEducationOrganization |-> org, Supplements |-> supplements,
     Decisions |-> decisions, IndividualEntrepreneurINN |-> ip_inn]

\* the programs of the supplements, last supplement first
RECURSIVE Flatten_Reversed(_)
Flatten_Reversed(ss) ==
    IF ss = <<>> THEN <<>> ELSE Flatten_Reversed(Tail(ss)) \o Head(ss)

RECURSIVE Flatten(_)
Flatten(ss) == IF ss = <<>> THEN <<>> ELSE Head(ss) \o Flatten(Tail(ss))

\* boba.py parse_xml_to_db, lines 238-241 and 271-272: every
\* EducationalProgram under every Supplement, in document order
ProgramsOf(elem) == Flatten(elem.Supplements)

\* the integer a text compares equal to under SQLite's numeric affinity
\* (Organization.id == org.HeadEduOrgId); 0 when the text is no number or a
\* number no row of the model has as id
IdOfText(t) ==
    CASE t = <<"1">> -> 1
      [] t = <<"2">> -> 2
      [] t = <<"3">> -> 3
      [] t = <<"4">> -> 4
      [] OTHER -> 0

(***************************************************************************)
(* Entity builder, boba.py                                                 *)
(***************************************************************************)

\* org_types_cache.get(code): the cached OrganizationType id, 0 for None
CacheGet(org_types_cache, code) ==
    IF code \in DOMAIN org_types_cache THEN org_types_cache[code] ELSE 0

\* boba.py process_organization: ok = FALSE is the None result
process_organization(cert_elem, org_types_cache, programs) ==
    LET org_elem == cert_elem.ActualEducationOrganization
        type_name == Lower(safe_text(org_elem.TypeName, <<>>))
        is_branch == safe_bool(org_elem.IsBranch)
        org_type_code == OrgTypeCode(type_name, programs)
        type_id == CacheGet(org_types_cache, org_type_code)
    IN  [ok |-> org_elem.present /\ type_id # 0,
         org |-> [tbl |-> "organizations", id |-> 0,
                  INN |-> safe_text(org_elem.INN, <<>>),
                  TypeName |-> type_name,
                  IsBranch |-> is_branch,
                  HeadEduOrgId |-> safe_text(org_elem.HeadEduOrgId, <<>>),
                  type_id |-> type_id,
                  org_type |-> org_type_code,
                  parent_id |-> 0]]

\* no output filter
PassesFilter_All(org) == TRUE

\* boba.py parse_xml_to_db, lines 253-254: the output filter
PassesFilter(org) == ~(org.org_type # "higher" /\ org.IsBranch # "True")

\* a parent query that matches the primary identifier only
ParentMatches_IdOnly(rows, org) ==
    {r \in Table(rows, "organizations") :
        IdOfText(org.HeadEduOrgId) # 0 /\ r.id = IdOfText(org.HeadEduOrgId)}

\* boba.py parse_xml_to_db, lines 263-266: the rows the parent query matches
ParentMatches(rows, org) ==
    {r \in Table(rows, "organizations") :
        \/ (IdOfText(org.HeadEduOrgId) # 0 /\ r.id = IdOfText(org.HeadEduOrgId))
        \/ r.INN = org.HeadEduOrgId}

\* a parent query that returns any organization
FirstParentIds_Any(rows, org) == {r.id : r \in Table(rows, "organizations")}

\* .first() of the parent query, which has no ORDER BY: any of the matching
\* rows may come first; 0 for None
FirstParentIds(rows, org) ==
    LET hit == {r.id : r \in ParentMatches(rows, org)}
    IN  IF hit = {} THEN {0} ELSE hit

\* boba.py parse_xml_to_db, lines 262-268; first is the id of the row that
\* .first() returned
ResolveParent(org, first) ==
    IF org.IsBranch = "True" /\ first # 0
    THEN [org EXCEPT !.parent_id = first]
    ELSE org

(***************************************************************************)
(* Session: pending objects (session.new), flushed rows of the open        *)
(* transaction, committed rows                                             *)
(***************************************************************************)

\* flush: INSERT the pending objects in order, assigning primary keys to the
\* rows whose key the model follows
RECURSIVE Flush(_, _, _)
Flush(committed, flushed, pending) ==
    IF pending = <<>> THEN flushed
    ELSE LET r == Head(pending)
             row == IF "id" \in DOMAIN r
                    THEN [r EXCEPT !.id = NextId(committed \cup flushed, r.tbl)]
                    ELSE r
         IN  Flush(committed, flushed \cup {row}, Tail(pending))

\* number of objects a pending entry stands for (n Decision objects are
\* kept as one entry)
Count(r) == IF "n" \in DOMAIN r THEN r.n ELSE 1

RECURSIVE SumCount(_)
SumCount(pending) ==
    IF pending = <<>> THEN 0 ELSE Count(Head(pending)) + SumCount(Tail(pending))

\* len(session.new)
LenNew(pending) == SumCount(pending)


(***************************************************************************)
(* Change detector                                                         *)
(***************************************************************************)

\* a dict as a function; the empty dict
EmptyDict == << >>

\* state[file_path] = current_hash
DictPut(d, k, v) == [x \in (DOMAIN d) \cup {k} |-> IF x = k THEN v ELSE d[x]]

\* state.json: exists, can be opened for reading, and holds a JSON object
\* (kind "dict", with map its content), another JSON value such as [] or
\* null (kind "nondict") or text that is not JSON (kind "corrupt")
StateFile(exists, readable, kind, map) ==
    [exists |-> exists, readable |-> readable, kind |-> kind, map |-> map]

\* load_state: dict = FALSE is a loaded JSON value that is no dict
load_state(sf) ==
    IF sf.exists /\ sf.readable /\ sf.kind = "dict" THEN [dict |-> TRUE, map |-> sf.map]
    ELSE IF sf.exists /\ sf.readable /\ sf.kind = "nondict"
         THEN [dict |-> FALSE, map |-> EmptyDict]
    ELSE [dict |-> TRUE, map |-> EmptyDict]

\* save_state under an outcome of the write: "ok", "open_failed" (open(..,'w')
\* raises, the file is untouched) or "write_failed" (json.dump raises after
\* open truncated the file); the exception is logged and swallowed
save_state(sf, state, outcome) ==
    CASE outcome = "ok" ->
            StateFile(TRUE, IF sf.exists THEN sf.readable ELSE TRUE, "dict", state)
      [] outcome = "write_failed" ->
            StateFile(TRUE, IF sf.exists THEN sf.readable ELSE TRUE, "corrupt", EmptyDict)
      [] OTHER -> sf

SaveOutcomes == {"ok", "open_failed", "write_failed"}

\* check_for_updates: ret is "True", "False" or "raised" (the TypeError of
\* `in` / item assignment on a loaded value that is no dict)
check_for_updates(sf, file_path, current_hash, outcome) ==
    LET state == load_state(sf)
    IN  IF ~state.dict
        THEN [ret |-> "raised", stateFile |-> sf, saved |-> FALSE]
        ELSE IF file_path \in DOMAIN state.map /\ state.map[file_path] = current_hash
        THEN [ret |-> "False", stateFile |-> sf, saved |-> FALSE]
        ELSE [ret |-> "True",
              stateFile |-> save_state(sf, DictPut(state.map, file_path, current_hash), outcome),
              saved |-> TRUE]

(***************************************************************************)
(* Reference-data seeding                                                  *)
(***************************************************************************)

\* rows merged by initialize_database for one reference table
SeedRows(rows, t, codes) ==
    {[tbl |-> t, id |-> NextId(rows, t) + i - 1, code |-> codes[i]] : i \in 1..Len(codes)}

\* boba.py initialize_database: session.merge of an object without primary
\* key INSERTs it; organization_types.code is unique, so the commit raises
\* IntegrityError (ok = FALSE) when a code is already there
initialize_database(rows) ==
    LET clash == \E r \in Table(rows, "organization_types") :
                    \E i \in 1..Len(OrgTypeCodes) : r.code = OrgTypeCodes[i]
    IN  IF clash THEN [ok |-> FALSE, rows |-> rows]
        ELSE [ok |-> TRUE,
              rows |-> rows \cup SeedRows(rows, "organization_types", OrgTypeCodes)
                            \cup SeedRows(rows, "education_levels", EduLevelCodes)
                            \cup SeedRows(rows, "education_forms", EduFormCodes)]

\* boba.py parse_xml_to_db, line 229: {ot.code: ot for ot in query.all()}
BuildCache(rows) ==
    LET ts == Table(rows, "organization_types")
    IN  [c \in {r.code : r \in ts} |-> (CHOOSE r \in ts : r.code = c).id]


(***************************************************************************)
(* Streaming driver: the body of the loop for one Certificate element     *)
(***************************************************************************)

\* periodic commit threshold: len(session.new) % 100
BatchSize == 100

\* provenance of a built entity (run, record index, position within the
\* record): history fields, not columns
Tag(r, run, rec, ord) == r @@ [run |-> run, rec |-> rec, ord |-> ord]

\* session.commit(): flush, then the transaction's rows become committed
Commit(committed, flushed, pending) == committed \cup Flush(committed, flushed, pending)

\* what one pass through the loop body leaves: the session, the event it
\* logged, whether elem.clear() ran, and the entities it staged
Step(committed, flushed, pending, ev, cleared, staged) ==
    [store |-> committed, txn |-> flushed, new |-> pending,
     ev |-> ev, cleared |-> cleared, staged |-> staged]

\* the except branch of the loop body: logger.error, session.rollback()
\* (flushed rows undone, pending objects expunged); elem.clear() follows
RecordFailed(committed, ev) == Step(committed, {}, <<>>, ev, TRUE, {})

\* a periodic commit whose failure is logged but not rolled back
PeriodicCommit_NoRollback(committed, flushed, pending, staged, outcome) ==
    IF LenNew(pending) % BatchSize = 0
    THEN IF outcome = "commit_error"
         THEN Step(committed, flushed, pending, "commit_failed", TRUE, {})
         ELSE Step(Commit(committed, flushed, pending), {}, <<>>, "committed", TRUE, staged)
    ELSE Step(committed, flushed, pending, "staged", TRUE, staged)

\* lines 277-278 / 316-317: the periodic commit after a record's entities
PeriodicCommit(committed, flushed, pending, staged, outcome) ==
    IF LenNew(pending) % BatchSize = 0
    THEN IF outcome = "commit_error"
         THEN RecordFailed(committed, "commit_failed")
         ELSE Step(Commit(committed, flushed, pending), {}, <<>>, "committed", TRUE, staged)
    ELSE Step(committed, flushed, pending, "staged", TRUE, staged)

\* boba.py parse_xml_to_db, lines 258-278: the organization is added and
\* flushed, its parent resolved, its programs built and added.
\* Each process_program call queries the store, which autoflushes the
\* programs added before it: only the last one is still pending at line 277.
BobaPersist(elem, org, committed, flushed, pending, run, rec, outcome, first) ==
    LET programs == ProgramsOf(elem)
        org_id == NextId(committed \cup flushed, "organizations")
        org1 == Tag([org EXCEPT !.id = org_id], run, rec, 1)
        tx1 == Flush(committed, flushed, pending) \cup {org1}
        org2 == ResolveParent(org1, first)
        tx2 == (tx1 \ {org1}) \cup {org2}
        n == Len(programs)
        progs == [k \in 1..n |->
                    Tag([process_program(programs[k], committed \cup tx2)
                           EXCEPT !.organization_id = org_id], run, rec, k + 1)]
        tx3 == IF n = 0 THEN tx2 ELSE Flush(committed, tx2, SubSeq(progs, 1, n - 1))
        pend3 == IF n = 0 THEN <<>> ELSE <<progs[n]>>
        staged == {<<rec, k>> : k \in 1..(n + 1)}
    IN  PeriodicCommit(committed, tx3, pend3, staged, outcome)

\* boba.py parse_xml_to_db, lines 236-284, for one Certificate element: the
\* set of results the iteration can have, one per row the parent query can
\* return first.  outcome "store_error": the store raises in flush or in a
\* query.
BobaRecord(elem, committed, flushed, pending, org_types_cache, run, rec, outcome) ==
    LET programs == ProgramsOf(elem)
        res == process_organization(elem, org_types_cache, programs)
    IN  IF ~res.ok \/ ~PassesFilter(res.org)
        THEN {Step(committed, flushed, pending, "skipped", FALSE, {})}
        ELSE IF outcome = "store_error"
        THEN {RecordFailed(committed, "record_failed")}
        ELSE LET org_id == NextId(committed \cup flushed, "organizations")
                 org1 == [res.org EXCEPT !.id = org_id]
                 rows == committed \cup Flush(committed, flushed, pending) \cup {org1}
             IN  {BobaPersist(elem, res.org, committed, flushed, pending, run, rec,
                              outcome, first) : first \in FirstParentIds(rows, org1)}

\* boba.py process_program, lines 419-430: the session.query calls of one
\* call, one for the level when level_code is set and one for the form
ProgramQueries(prog_elem) ==
    (IF LevelCode(Lower(safe_text(prog_elem.EduLevelName, <<>>))) # "None" THEN 1 ELSE 0) + 1

\* the session.query calls made while the entities of one Certificate element
\* are built: in boba.py the parent query of a branch (line 263) and those of
\* process_program (line 273), none when the record is skipped or the flush
\* of line 259 raises; in proektMAI.py none
RecordQueries(v, elem, org_types_cache, outcome) ==
    LET programs == ProgramsOf(elem)
        res == process_organization(elem, org_types_cache, programs)
        withLevel == {k \in 1..Len(programs) : ProgramQueries(programs[k]) = 2}
    IN  IF v # "boba" \/ ~res.ok \/ ~PassesFilter(res.org) \/ outcome = "store_error"
        THEN 0
        ELSE (IF res.org.IsBranch = "True" THEN 1 ELSE 0)
             + Len(programs) + Cardinality(withLevel)

\* proektMAI.py safe_text(element, default=None): element.text, not stripped
NoneText == [some |-> FALSE, text |-> <<>>]
SomeText(s) == [some |-> TRUE, text |-> s]
safe_text2(element, default) ==
    IF element.present
    THEN IF element.hasText THEN SomeText(element.text) ELSE NoneText
    ELSE default

\* proektMAI.py process_program: the fields read from the program element
process_program2(prog_elem) ==
    [tbl |-> "educational_programs",
     EduLevelName |-> safe_text2(prog_elem.EduLevelName, NoneText),
     IsAccredited |-> safe_bool(prog_elem.IsAccredited),
     IsCanceled |-> safe_bool(prog_elem.IsCanceled),
     IsSuspended |-> safe_bool(prog_elem.IsSuspended)]

\* proektMAI.py parse_xml_to_db, lines 279-313: the tables of the entities
\* added for one element, in the order of the session.add calls
ProektKinds(elem) ==
    LET ip == safe_text2(elem.IndividualEntrepreneurINN, NoneText)
        supp(ps) == <<"supplements">> \o [k \in 1..Len(ps) |-> "educational_programs"]
    IN  <<"organizations", "certificates">>
        \o (IF ip.some /\ ip.text # <<>> THEN <<"individual_entrepreneurs">> ELSE <<>>)
        \o Flatten([i \in 1..Len(elem.Supplements) |-> supp(elem.Supplements[i])])
        \o (IF elem.Decisions > 0 THEN <<"decisions">> ELSE <<>>)

\* proektMAI.py parse_xml_to_db, lines 277-325, for one Certificate element:
\* process_organization returns None without ActualEducationOrganization and
\* session.add(None) raises
ProektRecord(elem, committed, flushed, pending, run, rec, outcome) ==
    IF ~elem.ActualEducationOrganization.present
    THEN RecordFailed(committed, "record_failed")
    ELSE LET kinds == ProektKinds(elem)
             ents == [k \in 1..Len(kinds) |->
                        [tbl |-> kinds[k], run |-> run, rec |-> rec, ord |-> k,
                         n |-> IF kinds[k] = "decisions" THEN elem.Decisions ELSE 1]]
             staged == {<<rec, k>> : k \in 1..Len(kinds)}
         IN  PeriodicCommit(committed, flushed, pending \o ents, staged, outcome)


(***************************************************************************)
(* Bounds and inputs of the pipeline                                       *)
(***************************************************************************)

\* invocations of main
MaxRuns == 2
\* Certificate elements read over all runs
MaxReads == 3
\* distinct contents of the extracted XML file
MaxVersions == 2

Variants == {"boba", "proektMAI"}
Paths == {"a.xml", "b.xml"}
Outcomes == {"ok", "store_error", "commit_error"}

\* The environment is varied in two scopes.  "ingest": one file path, no
\* state.json at the start and writes of it that succeed, documents over all
\* the Certificate elements below.  "detect": both paths, every initial
\* state.json and every outcome of its write, documents over one element.
\* In a third scope, "classify", the builder functions are applied on their
\* own to type names, level texts and form texts, against the seeded store;
\* in a fourth, "coerce", the coercion helpers are applied to element texts.
Scopes == {"ingest", "detect", "classify", "coerce"}

Univ == TextElem(<<"Universitet">>)
Kolledzh == TextElem(<<" ", "kolledzh", "\n">>)
Yes == TextElem(<<"1">>)
No == TextElem(<<"0">>)
Keys == {TextElem(<<"1">>), TextElem(<<"7707">>)}
Bach == ProgElem(TextElem(<<"Bakalavr", "iat">>), TextElem(<<"Za", "ochnaya">>), Yes, NoElem, No)
Plain == ProgElem(TextElem(<<"srednee", " ", "professionalnoe">>), NoElem, NoElem, Yes, NoElem)

\* Certificate elements fed to boba.py: no organization; a university
\* without programs and one with two; a college that is no branch; two
\* branches of INN 2, with head identifier 1 and 7707
BobaCerts ==
    {Cert(NoOrgElem, <<>>, 0, NoElem),
     Cert(OrgElem(Univ, No, TextElem(<<"1">>), NoElem), <<>>, 0, NoElem),
     Cert(OrgElem(Univ, No, TextElem(<<"7707">>), NoElem), << <<Bach>>, <<Plain>> >>, 0, NoElem),
     Cert(OrgElem(Kolledzh, NoElem, TextElem(<<"1">>), NoElem), << <<Plain>> >>, 0, NoElem)}
    \cup {Cert(OrgElem(Kolledzh, Yes, TextElem(<<"2">>), k), <<>>, 0, NoElem) : k \in Keys}

\* Certificate elements fed to proektMAI.py: 2, 5, 100 and 98 entities
ProektCerts ==
    {Cert(NoOrgElem, <<>>, 0, NoElem),
     Cert(OrgElem(Univ, No, TextElem(<<"1">>), NoElem), <<>>, 0, NoElem),
     Cert(OrgElem(Univ, No, TextElem(<<"1">>), NoElem), << <<Bach>> >>, 0, TextElem(<<"1">>)),
     Cert(OrgElem(Univ, No, TextElem(<<"1">>), NoElem), <<>>, 98, NoElem),
     Cert(OrgElem(Univ, No, TextElem(<<"1">>), NoElem), <<>>, 96, NoElem)}

CertsOf(v, sc) ==
    IF sc = "detect"
    THEN {Cert(OrgElem(Univ, No, TextElem(<<"1">>), NoElem), << <<Bach>> >>, 0, NoElem)}
    ELSE IF v = "boba" THEN BobaCerts ELSE ProektCerts

PathsOf(sc) == IF sc = "detect" THEN Paths ELSE {"a.xml"}

SaveOutcomesOf(sc) == IF sc = "detect" THEN SaveOutcomes ELSE {"ok"}

\* state.json before the first run
InitialStateFiles ==
    {StateFile(FALSE, TRUE, "dict", EmptyDict),
     StateFile(TRUE, FALSE, "dict", EmptyDict),
     StateFile(TRUE, TRUE, "corrupt", EmptyDict),
     StateFile(TRUE, TRUE, "nondict", EmptyDict),
     StateFile(TRUE, TRUE, "dict", EmptyDict),
     StateFile(TRUE, TRUE, "dict", [x \in {"b.xml"} |-> 0])}

(***************************************************************************)
(* State                                                                   *)
(***************************************************************************)
VARIABLES
    scope,      \* how the environment is varied: see Scopes
    variant,    \* which program runs: "boba" or "proektMAI"
    pc,         \* where main is: "idle" between runs
    runs,       \* invocations of main so far
    files,      \* cache directory: path -> version of its bytes (0: no file),
                \* the Certificate elements read from it so far, and its tail
    nver,       \* contents seen so far
    xml_file,   \* result of find_xml_file in this run
    stateFile,  \* state.json
    store,      \* committed rows of education.db
    txn,        \* rows flushed in the session's open transaction
    new,        \* session.new
    cache,      \* org_types_cache
    idx,        \* position of the next Certificate element
    reads,      \* Certificate elements read over all runs
    ev,         \* what the last step logged
    h,          \* history of the run, for the properties
    call,       \* the builder function being applied on its own, "none" if none
    arg,        \* its argument
    ret         \* its result

vars == <<scope, variant, pc, runs, files, nver, xml_file, stateFile, store, txn, new,
          cache, idx, reads, ev, h, call, arg, ret>>

fnVars == <<call, arg, ret>>
session == <<store, txn, new>>

NoFile == [ver |-> 0, recs |-> <<>>, tail |-> "unknown"]

\* history of a run: chk is the result of check_for_updates, saves the number
\* of save_state calls, dbops whether the run touched the store, staged the
\* entities staged by records processed without error, cleared whether
\* elem.clear() ran for the last record, failed whether a record of the run
\* ended in the except branch, queried whether the build of the last record
\* queried the store, final the number of entries the final commit
\* found flushed or pending, result what parse_xml_to_db returned, prev the
\* file and outcome of the previous run that reached the check
NoPrev == [path |-> "", ver |-> 0, chk |-> "none"]
NewRun(prev) ==
    [chk |-> "none", saves |-> 0, dbops |-> FALSE, staged |-> {},
     cleared |-> TRUE, failed |-> FALSE, final |-> 0, result |-> "none",
     queried |-> FALSE, prev |-> prev]

\* get_file_hash: MD5 of the bytes, one digest per content
get_file_hash(fs, file_path) == fs[file_path].ver

\* the state before the first run of main, in scope sc
InitIn(sc) ==
    /\ scope = sc
    /\ variant \in Variants
    /\ pc = "idle"
    /\ runs = 0
    /\ files = [p \in Paths |-> NoFile]
    /\ nver = 0
    /\ xml_file = ""
    /\ stateFile \in (IF sc = "detect" THEN InitialStateFiles
                      ELSE {StateFile(FALSE, TRUE, "dict", EmptyDict)})
    /\ store = {}
    /\ txn = {}
    /\ new = <<>>
    /\ cache = EmptyDict
    /\ idx = 0
    /\ reads = 0
    /\ ev = "none"
    /\ h = NewRun(NoPrev)
    /\ call = "none"
    /\ arg = <<>>
    /\ ret = <<>>

Init == InitIn("ingest")

InitDetect == InitIn("detect")


(***************************************************************************)
(* Actions of the pipeline                                                 *)
(***************************************************************************)

\* the previous run, as the next run's history sees it
PrevOf(hist, fs, path) ==
    IF hist.chk = "none" THEN hist.prev
    ELSE [path |-> path, ver |-> fs[path].ver, chk |-> hist.chk]

\* main, lines 490-502: download_and_extract_archive and find_xml_file.
\* The archive holds a file p whose bytes are new or those already cached;
\* find_xml_file returns the first .xml that os.walk meets.
Download ==
    /\ pc = "idle"
    /\ runs < MaxRuns
    /\ runs' = runs + 1
    /\ h' = NewRun(PrevOf(h, files, xml_file))
    /\ \/ /\ ev' = "download_failed"
          /\ UNCHANGED <<files, nver, xml_file, pc>>
       \/ /\ \A q \in Paths : files[q].ver = 0
          /\ ev' = "no_xml"
          /\ UNCHANGED <<files, nver, xml_file, pc>>
       \/ \E p \in PathsOf(scope), fresh \in BOOLEAN :
             /\ IF fresh THEN nver < MaxVersions ELSE files[p].ver # 0
             /\ files' = IF fresh
                         THEN [files EXCEPT ![p] = [NoFile EXCEPT !.ver = nver + 1]]
                         ELSE files
             /\ nver' = IF fresh THEN nver + 1 ELSE nver
             /\ xml_file' \in {q \in Paths : files'[q].ver # 0}
             /\ ev' = "downloaded"
             /\ pc' = "check"
    /\ UNCHANGED <<scope, variant, stateFile, store, txn, new, cache, idx, reads, fnVars>>

\* main, lines 505-507, with check_for_updates
CheckForUpdates ==
    /\ pc = "check"
    /\ \E outcome \in SaveOutcomesOf(scope) :
          LET r == check_for_updates(stateFile, xml_file,
                                     get_file_hash(files, xml_file), outcome)
          IN  /\ stateFile' = r.stateFile
              /\ h' = [h EXCEPT !.chk = r.ret, !.saves = IF r.saved THEN 1 ELSE 0]
              /\ pc' = IF r.ret = "True" THEN "init" ELSE "idle"
              /\ ev' = IF r.ret = "raised" THEN "traceback"
                       ELSE IF r.ret = "False" THEN "unchanged"
                       ELSE IF r.saved /\ outcome # "ok" THEN "save_failed"
                       ELSE "changed"
    /\ UNCHANGED <<scope, variant, runs, files, nver, xml_file, store, txn, new, cache,
                   idx, reads, fnVars>>

\* main, lines 510-517: the session is opened; boba.py seeds the reference
\* tables, and an exception there is fatal (logged, rollback, close)
InitializeDatabase ==
    /\ pc = "init"
    /\ LET r == IF variant = "boba" THEN initialize_database(store)
                ELSE [ok |-> TRUE, rows |-> store]
       IN  /\ store' = r.rows
           /\ pc' = IF r.ok THEN "parse" ELSE "idle"
           /\ ev' = IF r.ok THEN "initialized" ELSE "fatal"
    /\ txn' = {}
    /\ new' = <<>>
    /\ h' = [h EXCEPT !.dbops = TRUE]
    /\ UNCHANGED <<scope, variant, runs, files, nver, xml_file, stateFile, cache, idx,
                   reads, fnVars>>

\* parse_xml_to_db up to the loop: boba.py fills org_types_cache
ParseBegin ==
    /\ pc = "parse"
    /\ cache' = IF variant = "boba" THEN BuildCache(store) ELSE EmptyDict
    /\ idx' = 1
    /\ pc' = "stream"
    /\ ev' = "parsing"
    /\ UNCHANGED <<scope, variant, runs, files, nver, xml_file, stateFile, store, txn,
                   new, reads, h, fnVars>>

\* one iteration of the loop on the next Certificate element: an element
\* read before is read again as it was
ProcessRecord ==
    /\ pc = "stream"
    /\ reads < MaxReads
    /\ \E elem \in CertsOf(variant, scope), outcome \in Outcomes :
          /\ IF idx <= Len(files[xml_file].recs)
             THEN elem = files[xml_file].recs[idx]
             ELSE files[xml_file].tail = "unknown"
          /\ \E r \in IF variant = "boba"
                      THEN BobaRecord(elem, store, txn, new, cache, runs, idx, outcome)
                      ELSE {ProektRecord(elem, store, txn, new, runs, idx, outcome)} :
                 /\ store' = r.store
                 /\ txn' = r.txn
                 /\ new' = r.new
                 /\ ev' = r.ev
                 /\ h' = [h EXCEPT !.staged = @ \cup r.staged, !.cleared = r.cleared,
                                    !.failed = @ \/ r.ev \in {"record_failed", "commit_failed"},
                                    !.queried = RecordQueries(variant, elem, cache, outcome) > 0]
          /\ files' = [files EXCEPT ![xml_file].recs =
                          IF idx <= Len(@) THEN @ ELSE Append(@, elem)]
    /\ idx' = idx + 1
    /\ reads' = reads + 1
    /\ UNCHANGED <<scope, variant, pc, runs, nver, xml_file, stateFile, cache, fnVars>>

\* the outer except of parse_xml_to_db when iterparse raises on malformed
\* XML after the elements read so far: logged, rollback, return False
ParseError ==
    /\ pc = "stream"
    /\ idx > Len(files[xml_file].recs)
    /\ files[xml_file].tail \in {"unknown", "malformed"}
    /\ files' = [files EXCEPT ![xml_file].tail = "malformed"]
    /\ txn' = {}
    /\ new' = <<>>
    /\ ev' = "critical"
    /\ h' = [h EXCEPT !.result = "False"]
    /\ pc' = "end"
    /\ UNCHANGED <<scope, variant, runs, nver, xml_file, stateFile, store, cache, idx,
                   reads, fnVars>>

\* a loop exit that returns True without committing
final_commit_Skipped(committed, flushed, pending, ok) ==
    [store |-> committed, ev |-> "final_commit", result |-> "True"]

\* parse_xml_to_db after the loop, lines 286-302: session.commit(), and the
\* outer except (rollback, return False) when it raises
final_commit(committed, flushed, pending, ok) ==
    IF ok THEN [store |-> Commit(committed, flushed, pending), ev |-> "final_commit",
                result |-> "True"]
    ELSE [store |-> committed, ev |-> "final_commit_failed", result |-> "False"]

\* the document ends: the loop is left and the final commit issued
FinalCommit ==
    /\ pc = "stream"
    /\ idx > Len(files[xml_file].recs)
    /\ files[xml_file].tail \in {"unknown", "eof"}
    /\ files' = [files EXCEPT ![xml_file].tail = "eof"]
    /\ \E ok \in BOOLEAN :
          LET r == final_commit(store, txn, new, ok)
          IN  /\ store' = r.store
              /\ ev' = r.ev
              /\ h' = [h EXCEPT !.result = r.result,
                                 !.final = Cardinality(txn) + Len(new)]
    /\ txn' = {}
    /\ new' = <<>>
    /\ pc' = "end"
    /\ UNCHANGED <<scope, variant, runs, nver, xml_file, stateFile, cache, idx, reads, fnVars>>

\* main, lines 522-546: statistics or error logged, session.close()
Finish ==
    /\ pc = "end"
    /\ pc' = "idle"
    /\ ev' = IF h.result = "True" THEN "done" ELSE "done_with_errors"
    /\ UNCHANGED <<scope, variant, runs, files, nver, xml_file, stateFile, store, txn, new,
                   cache, idx, reads, h, fnVars>>

\* the process is killed during ingestion: the open transaction is lost
Kill ==
    /\ pc \in {"init", "parse", "stream", "end"}
    /\ pc' = "idle"
    /\ txn' = {}
    /\ new' = <<>>
    /\ ev' = "killed"
    /\ UNCHANGED <<scope, variant, runs, files, nver, xml_file, stateFile, store, cache,
                   idx, reads, h, fnVars>>

(***************************************************************************)
(* The classifiers applied to type names, level texts and form texts       *)
(***************************************************************************)
MaxParts == 2
MaxProgs == 2

\* words a TypeName is made of, in the case the registry writes them
Phrases ==
    { <<"Licey">>, <<"shkola">>, <<"Universitet">>, <<"vysshee">>, <<"obrazovanie">>,
      <<"Kolledzh">>, <<"tekhnikum">>, <<"centr">> }

\* texts of up to n phrases separated by a space
RECURSIVE Names(_)
Names(n) ==
    IF n <= 1 THEN Phrases
    ELSE Names(n - 1) \cup {a \o <<" ">> \o b : a \in Names(n - 1), b \in Phrases}

TypeNameElems == {NoElem, EmptyElem} \cup {TextElem(t) : t \in Names(MaxParts)}

LevelElems ==
    {NoElem, EmptyElem} \cup
    {TextElem(t) : t \in { <<"Bakalavr", "iat">>, <<"Magistr", "atura">>,
                           <<"special", "itet">>, <<"special", "ist">>,
                           <<"aspirant", "ura">>,
                           <<"srednee", " ", "professionalnoe">> }}

FormElems ==
    {NoElem, EmptyElem} \cup
    {TextElem(t) : t \in { <<"Ochnaya">>, <<"Za", "ochnaya">>,
                           <<"ochno-", "za", "ochnaya">>, <<"vechernyaya">>,
                           <<" ", "distancionnaya", "\n">> }}

\* the elements of a lifecycle flag: absent, without text, "1", "0", other
FlagElems == {NoElem, EmptyElem, Yes, No, TextElem(<<"da">>)}

\* program elements handed to process_organization
ProgInputs ==
    {ProgElem(l, NoElem, NoElem, NoElem, NoElem) :
        l \in {NoElem, TextElem(<<"Bakalavr", "iat">>),
                TextElem(<<"srednee", " ", "professionalnoe">>)}}

ProgramLists == UNION {[1..k -> ProgInputs] : k \in 0..MaxProgs}

InitClassify ==
    /\ scope = "classify"
    /\ variant = "boba"
    /\ pc = "idle"
    /\ runs = 0
    /\ files = [p \in Paths |-> NoFile]
    /\ nver = 0
    /\ xml_file = ""
    /\ stateFile = StateFile(FALSE, TRUE, "dict", EmptyDict)
    /\ store = initialize_database({}).rows
    /\ txn = {}
    /\ new = <<>>
    /\ cache = BuildCache(initialize_database({}).rows)
    /\ idx = 0
    /\ reads = 0
    /\ ev = "initialized"
    /\ h = NewRun(NoPrev)
    /\ call = "none"
    /\ arg = <<>>
    /\ ret = <<>>

\* process_organization on a Certificate with the given TypeName, handed the
\* programs parse_xml_to_db collected from it (lines 238-244)
ApplyProcessOrganization ==
    /\ scope = "classify"
    /\ call = "none"
    /\ \E tn \in TypeNameElems, ps \in ProgramLists :
          LET cert == Cert(OrgElem(tn, NoElem, NoElem, NoElem),
                           IF ps = <<>> THEN <<>> ELSE <<ps>>, 0, NoElem)
          IN  /\ call' = "process_organization"
              /\ arg' = [cert |-> cert, programs |-> ProgramsOf(cert)]
              /\ ret' = process_organization(cert, cache, ProgramsOf(cert))
    /\ UNCHANGED <<scope, variant, pc, runs, files, nver, xml_file, stateFile, session,
                   cache, idx, reads, ev, h>>

\* process_program on a program element, against the seeded store
ApplyProcessProgram ==
    /\ scope = "classify"
    /\ call = "none"
    /\ \E l \in LevelElems, f \in FormElems, acc \in FlagElems, canc \in FlagElems,
          susp \in FlagElems :
          LET prog_elem == ProgElem(l, f, acc, canc, susp)
          IN  /\ call' = "process_program"
              /\ arg' = [prog_elem |-> prog_elem]
              /\ ret' = process_program(prog_elem, store)
    /\ UNCHANGED <<scope, variant, pc, runs, files, nver, xml_file, stateFile, session,
                   cache, idx, reads, ev, h>>

\* proektMAI.py process_program on a program element
ApplyProcessProgram2 ==
    /\ scope = "classify"
    /\ call = "none"
    /\ \E l \in {NoElem, TextElem(<<"Bakalavr", "iat">>)}, acc \in FlagElems,
          canc \in FlagElems, susp \in FlagElems :
          LET prog_elem == ProgElem(l, NoElem, acc, canc, susp)
          IN  /\ call' = "process_program2"
              /\ arg' = [prog_elem |-> prog_elem]
              /\ ret' = process_program2(prog_elem)
    /\ UNCHANGED <<scope, variant, pc, runs, files, nver, xml_file, stateFile, session,
                   cache, idx, reads, ev, h>>

\* the call returns to its caller
Return ==
    /\ scope \in {"classify", "coerce"}
    /\ call # "none"
    /\ call' = "none"
    /\ arg' = <<>>
    /\ ret' = <<>>
    /\ UNCHANGED <<scope, variant, pc, runs, files, nver, xml_file, stateFile, session,
                   cache, idx, reads, ev, h>>

NextClassify ==
    \/ ApplyProcessOrganization
    \/ ApplyProcessProgram
    \/ ApplyProcessProgram2
    \/ Return

SpecClassify == InitClassify /\ [][NextClassify]_vars

(***************************************************************************)
(* The coercion helpers applied to element texts                           *)
(***************************************************************************)
MaxLen == 3

\* texts of up to n of the tokens "0", "1", "x" and the whitespace " "
RECURSIVE Texts(_)
Texts(n) ==
    IF n = 0 THEN {<<>>}
    ELSE Texts(n - 1) \cup {Append(t, c) : t \in Texts(n - 1), c \in {"0", "1", "x", " "}}

TextElems == {NoElem, EmptyElem} \cup {TextElem(t) : t \in Texts(MaxLen)}

\* a calendar date written in format i of fmts, at 10:00:00 where the format
\* has a time and with offset z where it has one
Written(i, y, m, d, z) ==
    CASE i = 1 -> <<y, "-", m, "-", d>>
      [] i = 2 -> <<d, ".", m, ".", y>>
      [] i = 3 -> <<y, "/", m, "/", d>>
      [] i = 4 -> <<y, "-", m, "-", d, " ", "10", ":", "00", ":", "00">>
      [] OTHER -> <<y, "-", m, "-", d, " ", "10", ":", "00", ":", "00", z>>

ValidDateTexts ==
    {Written(i, y, m, d, z) :
        i \in 1..Len(fmts), y \in Years, m \in Months, d \in Days, z \in Offsets}

\* date texts: valid ones, bare, padded or followed by an offset, and others
DateElems ==
    {NoElem, EmptyElem, TextElem(<<>>), TextElem(<<"x">>),
     TextElem(<<"2020", "-", "31", "-", "12">>)}
    \cup {TextElem(t) : t \in ValidDateTexts}
    \cup {TextElem(<<" ">> \o t \o <<"\n">>) : t \in ValidDateTexts}
    \cup {TextElem(t \o <<z>>) : t \in ValidDateTexts, z \in Offsets}
    \cup {TextElem(t \o <<" ", "+03:00">>) : t \in ValidDateTexts}

InitCoerce ==
    /\ scope = "coerce"
    /\ variant \in Variants
    /\ pc = "idle"
    /\ runs = 0
    /\ files = [p \in Paths |-> NoFile]
    /\ nver = 0
    /\ xml_file = ""
    /\ stateFile = StateFile(FALSE, TRUE, "dict", EmptyDict)
    /\ store = {}
    /\ txn = {}
    /\ new = <<>>
    /\ cache = EmptyDict
    /\ idx = 0
    /\ reads = 0
    /\ ev = "none"
    /\ h = NewRun(NoPrev)
    /\ call = "none"
    /\ arg = <<>>
    /\ ret = <<>>

\* safe_bool on an element
ApplySafeBool ==
    /\ scope = "coerce"
    /\ call = "none"
    /\ \E element \in TextElems :
          /\ call' = "safe_bool"
          /\ arg' = [element |-> element]
          /\ ret' = safe_bool(element)
    /\ UNCHANGED <<scope, variant, pc, runs, files, nver, xml_file, stateFile, session,
                   cache, idx, reads, ev, h>>

\* safe_text on an element and a default: boba.py's or proektMAI.py's
ApplySafeText ==
    /\ scope = "coerce"
    /\ call = "none"
    /\ \E element \in TextElems, default \in {<<>>, <<"x", "x">>} :
          /\ call' = "safe_text"
          /\ IF variant = "boba"
             THEN /\ arg' = [element |-> element, default |-> default]
                  /\ ret' = safe_text(element, default)
             ELSE /\ arg' = [element |-> element, default |-> SomeText(default)]
                  /\ ret' = safe_text2(element, SomeText(default))
    /\ UNCHANGED <<scope, variant, pc, runs, files, nver, xml_file, stateFile, session,
                   cache, idx, reads, ev, h>>

\* proektMAI.py safe_text on an element with the default left at None
ApplySafeTextNoDefault ==
    /\ scope = "coerce"
    /\ variant = "proektMAI"
    /\ call = "none"
    /\ \E element \in TextElems :
          /\ call' = "safe_text"
          /\ arg' = [element |-> element, default |-> NoneText]
          /\ ret' = safe_text2(element, NoneText)
    /\ UNCHANGED <<scope, variant, pc, runs, files, nver, xml_file, stateFile, session,
                   cache, idx, reads, ev, h>>

\* safe_date on an element
ApplySafeDate ==
    /\ scope = "coerce"
    /\ call = "none"
    /\ \E element \in DateElems :
          /\ call' = "safe_date"
          /\ arg' = [element |-> element]
          /\ ret' = safe_date(element)
    /\ UNCHANGED <<scope, variant, pc, runs, files, nver, xml_file, stateFile, session,
                   cache, idx, reads, ev, h>>

NextCoerce ==
    \/ ApplySafeBool
    \/ ApplySafeText
    \/ ApplySafeTextNoDefault
    \/ ApplySafeDate
    \/ Return

SpecCoerce == InitCoerce /\ [][NextCoerce]_vars

Next ==
    \/ Download
    \/ CheckForUpdates
    \/ InitializeDatabase
    \/ ParseBegin
    \/ ProcessRecord
    \/ ParseError
    \/ FinalCommit
    \/ Finish
    \/ Kill

Spec == Init /\ [][Next]_vars

SpecDetect == InitDetect /\ [][Next]_vars


(***************************************************************************)
(* Properties of the pipeline                                              *)
(***************************************************************************)

\* rows built from the document (reference rows carry no provenance)
Ingested(rows) == {r \in rows : "run" \in DOMAIN r}

\* the row of this run that entity <<rec, ord>> became
RowOf(rows, run, k) ==
    {r \in Ingested(rows) : r.run = run /\ r.rec = k[1] /\ r.ord = k[2]}

\* state.json holds the fingerprint of the file of this run
HoldsFingerprint ==
    /\ stateFile.exists
    /\ stateFile.kind = "dict"
    /\ xml_file \in DOMAIN stateFile.map
    /\ stateFile.map[xml_file] = get_file_hash(files, xml_file)

\* this run's check ran on the file, with the bytes, of the previous run
SameFileAsPrev ==
    /\ h.chk # "none"
    /\ h.prev.chk # "none"
    /\ h.prev.path = xml_file
    /\ h.prev.ver = files[xml_file].ver

\* C1: when parse_xml_to_db returned True, every entity staged by a record
\* that was processed without error is a committed row, whatever records
\* failed in between.
C1_RecordFailureIsolated ==
    (pc = "end" /\ h.result = "True") =>
        \A k \in h.staged : RowOf(store, runs, k) # {}

\* C2: a run of main on the file and bytes of the previous run returns False
\* from check_for_updates, does not write state.json and does not touch the
\* store.
C2_UnchangedFileIsSkipped ==
    SameFileAsPrev => (h.chk = "False" /\ h.saves = 0 /\ ~h.dbops)

\* C3: while ingestion runs, state.json already holds the fingerprint of the
\* file, and the run that follows a run whose check returned True on the
\* same bytes gets False.
C3_FingerprintSavedBeforeIngestion ==
    /\ pc \in {"init", "parse", "stream", "end"} => HoldsFingerprint
    /\ (SameFileAsPrev /\ h.prev.chk = "True") => h.chk = "False"

\* C4: on the first run, whatever state.json held (absent, unreadable, not
\* JSON, JSON that is no path-to-hash mapping), check_for_updates does not
\* raise and returns True, and when its write succeeded state.json holds the
\* fingerprint.
C4_CorruptStateIsEmpty ==
    (runs = 1 /\ h.chk # "none") =>
        /\ h.chk = "True"
        /\ (pc = "init" /\ ev = "changed") => HoldsFingerprint

\* C5: the step in which the periodic commit raises leaves the committed rows
\* as they were, rolls the session back, logs the failure and stays in the
\* loop at the next element; and no step ever removes a committed row.
C5_CommitFailureIsolated ==
    [][ /\ store \subseteq store'
        /\ (pc = "stream" /\ ev' = "commit_failed") =>
              /\ store' = store
              /\ txn' = {}
              /\ new' = <<>>
              /\ pc' = "stream"
              /\ idx' = idx + 1
              /\ h'.cleared ]_vars

\* C5 witness: a periodic commit failed after rows of this run were committed
C5_Witness ==
    /\ pc = "stream"
    /\ ev = "commit_failed"
    /\ \E r \in Ingested(store) : r.run = runs

\* C6: when the loop is left at the end of the document, a final commit is
\* issued; when it succeeds every row flushed and every object pending
\* before it is committed and the session is empty, whether or not records
\* failed before.
C6_FinalCommitIssued ==
    [][ (pc = "stream" /\ pc' = "end" /\ files'[xml_file].tail = "eof") =>
            /\ ev' \in {"final_commit", "final_commit_failed"}
            /\ ev' = "final_commit" =>
                  /\ txn \subseteq store'
                  /\ \A i \in 1..Len(new) :
                        RowOf(store', new[i].run, <<new[i].rec, new[i].ord>>) # {}
                  /\ txn' = {}
                  /\ new' = <<>> ]_vars

\* C6 witness: the final commit persisted staged entities in a run in which a
\* record had failed
C6_Witness ==
    /\ pc = "end"
    /\ ev = "final_commit"
    /\ h.failed
    /\ h.final > 0
    /\ \E r \in Ingested(store) : r.run = runs


\* Organization rows of the first variant, committed or flushed
Organizations ==
    IF variant = "boba" THEN Table(store \cup txn, "organizations") ELSE {}

\* the seeded OrganizationType rows an organization's type_id points to
TypesOf(o) == {t \in Table(store, "organization_types") : t.id = o.type_id}

\* C9: in the first variant every Organization row, committed or flushed, has
\* a type_id that is the id of exactly one row of organization_types and is
\* of type 'higher' or has IsBranch true; and after an iteration that skipped
\* its record no row and no pending object comes from that record.
C9_PersistedOrganizationsTypedAndFiltered ==
    /\ \A o \in Organizations :
          /\ Cardinality(TypesOf(o)) = 1
          /\ \A t \in TypesOf(o) : t.code = o.org_type
          /\ o.org_type = "higher" \/ o.IsBranch = "True"
    /\ (variant = "boba" /\ pc = "stream" /\ ev = "skipped") =>
          /\ \A r \in Ingested(store \cup txn) : ~(r.run = runs /\ r.rec = idx - 1)
          /\ \A i \in 1..Len(new) : ~(new[i].run = runs /\ new[i].rec = idx - 1)

\* C9 witness: a record was skipped while a branch that is not of type
\* 'higher' and a program are persisted
C9_Witness ==
    /\ variant = "boba"
    /\ pc = "stream"
    /\ ev = "skipped"
    /\ \E o \in Organizations : o.org_type # "higher" /\ o.IsBranch = "True"
    /\ Table(store \cup txn, "educational_programs") # {}

\* the organizations persisted before branch b whose INN is b's head
\* identifier
HeadsByInn(b) == {o \in Organizations : o.id < b.id /\ o.INN = b.HeadEduOrgId}

\* C10 as stated: a branch whose head identifier is the INN of an organization
\* persisted before it has that organization as parent.
C10_ParentIsTheInnMatch ==
    \A b \in Organizations :
        (b.IsBranch = "True" /\ HeadsByInn(b) # {}) =>
            b.parent_id \in {o.id : o \in HeadsByInn(b)}

\* C10 amended: a branch whose head identifier is the INN of an organization
\* persisted before it has a parent, and the parent is a persisted
\* organization whose primary identifier or INN equals the head identifier;
\* it is the organization with that INN when no other row matches.
C10_ParentIsSomeMatch ==
    \A b \in Organizations :
        (b.IsBranch = "True" /\ HeadsByInn(b) # {}) =>
            /\ b.parent_id # 0
            /\ \E o \in Organizations :
                  /\ o.id = b.parent_id
                  /\ o.id = IdOfText(b.HeadEduOrgId) \/ o.INN = b.HeadEduOrgId
            /\ (\A o \in Organizations :
                   (o.id = IdOfText(b.HeadEduOrgId) \/ o.INN = b.HeadEduOrgId)
                      => o \in HeadsByInn(b))
                  => b.parent_id \in {o.id : o \in HeadsByInn(b)}

\* C10 witness: a branch whose parent is the earlier organization with the
\* head identifier as INN, where no primary identifier matches
C10_Witness ==
    \E b \in Organizations :
        /\ b.IsBranch = "True"
        /\ IdOfText(b.HeadEduOrgId) = 0
        /\ \E o \in HeadsByInn(b) : b.parent_id = o.id


(***************************************************************************)
(* Properties of the classifiers                                           *)
(***************************************************************************)

\* the lower-cased type name process_organization was called with
CalledTypeName == Lower(safe_text(arg.cert.ActualEducationOrganization.TypeName, <<>>))

\* the rules of the priority order that match: 1 a secondary-education marker
\* in the name, 2 a higher-education marker in the name, 3 a program whose
\* level name holds a higher-education-level marker
RulesMatching(name, programs) ==
    {k \in {1} : ContainsAny(name, SecondaryMarkers)}
    \cup {k \in {2} : ContainsAny(name, HigherMarkers)}
    \cup {k \in {3} : \E i \in 1..Len(programs) :
                         ContainsAny(Lower(safe_text(programs[i].EduLevelName, <<>>)),
                                     HigherLevelMarkers)}

\* the reference function: the matching rule of least rank decides, the
\* fallback applies when none matches
RefOrgType(name, programs) ==
    LET rules == RulesMatching(name, programs)
    IN  IF rules = {}
        THEN IF ContainsAny(name, CollegeMarkers) THEN "secondary_pro" ELSE "secondary"
        ELSE LET first == CHOOSE m \in rules : \A k \in rules : m <= k
             IN  IF first = 1 THEN "secondary" ELSE "higher"

\* C7: the type code process_organization gives is the reference function of
\* the type name and the programs (first matching rule wins), and a name
\* holding the lyceum marker always gives 'secondary'.
C7_OrgTypeFollowsPriority ==
    call = "process_organization" =>
        /\ ret.ok
        /\ ret.org.org_type = RefOrgType(CalledTypeName, arg.programs)
        /\ Contains(CalledTypeName, <<"licey">>) => ret.org.org_type = "secondary"

\* C7 witness: a name with the lyceum marker and a higher-education marker,
\* with a bachelor program, was classified 'secondary'
C7_Witness ==
    /\ call = "process_organization"
    /\ Contains(CalledTypeName, <<"licey">>)
    /\ Contains(CalledTypeName, <<"universitet">>)
    /\ 3 \in RulesMatching(CalledTypeName, arg.programs)
    /\ ret.org.org_type = "secondary"

\* the code of the row of table t with the given id, "None" for id 0
CodeOfId(t, id) ==
    IF \E r \in Table(store, t) : r.id = id
    THEN (CHOOSE r \in Table(store, t) : r.id = id).code
    ELSE "None"

CalledForm == Lower(safe_text(arg.prog_elem.EducationForm, <<>>))
CalledLevel == Lower(safe_text(arg.prog_elem.EduLevelName, <<>>))

\* the form of study a form text names, each keyword taken as the word it is
FormNamed(form_name) ==
    IF Contains(form_name, <<"ochno-", "za", "ochnaya">>)
       \/ Contains(form_name, <<"vechernyaya">>) THEN "mixed"
    ELSE IF Contains(form_name, <<"za", "ochnaya">>) THEN "part_time"
    ELSE "full_time"

\* C8: process_program maps a form text with the part-time keyword to
\* 'part_time', one with the mixed or evening keyword to 'mixed', one with
\* the full-time keyword and any other form text to 'full_time'; a level text
\* with the bachelor keyword to 'bachelor', master to 'master', specialist or
\* postgraduate keyword to 'specialist', and any other level text to no level.
C8_ProgramFormAndLevel ==
    call = "process_program" =>
        /\ CodeOfId("education_forms", ret.form_id) = FormNamed(CalledForm)
        /\ CodeOfId("education_levels", ret.level_id) =
              (IF Contains(CalledLevel, <<"bakalavr">>) THEN "bachelor"
               ELSE IF Contains(CalledLevel, <<"magistr">>) THEN "master"
               ELSE IF Contains(CalledLevel, <<"special", "ist">>)
                       \/ Contains(CalledLevel, <<"aspirant">>) THEN "specialist"
               ELSE "None")


(***************************************************************************)
(* Properties of the coercion helpers                                      *)
(***************************************************************************)

\* C11 as stated: safe_bool gives true only for the text "1", false only for
\* the text "0", and unknown for every other text and for no text.
C11_BoolOnlyForLiteralText ==
    call = "safe_bool" =>
        ret = (IF arg.element.present /\ arg.element.hasText
                  /\ arg.element.text = <<"1">> THEN "True"
               ELSE IF arg.element.present /\ arg.element.hasText
                       /\ arg.element.text = <<"0">> THEN "False"
               ELSE "None")

\* the text without the whitespace at its ends, written without Strip: the
\* tokens from the first to the last that is no whitespace
Trimmed(text) ==
    LET inked == {i \in 1..Len(text) : text[i] \notin {" ", "\n"}}
    IN  IF inked = {} THEN <<>>
        ELSE SubSeq(text, CHOOSE i \in inked : \A j \in inked : i <= j,
                          CHOOSE i \in inked : \A j \in inked : j <= i)

\* C11 amended: safe_bool gives true exactly when the element has a text that
\* is "1" once the whitespace at its ends is removed, false exactly when that
\* is "0", and unknown otherwise, an absent or empty text included.
C11_BoolForTrimmedText ==
    call = "safe_bool" =>
        LET has == arg.element.present /\ arg.element.hasText
        IN  /\ ret = "True" <=> (has /\ Trimmed(arg.element.text) = <<"1">>)
            /\ ret = "False" <=> (has /\ Trimmed(arg.element.text) = <<"0">>)
            /\ ret \in {"True", "False", "None"}

\* C11 witness: a text that is "1" between whitespace was coerced to true
C11_Witness ==
    /\ call = "safe_bool"
    /\ arg.element.text = <<" ", "1", " ">>
    /\ ret = "True"

\* the valid date text the argument of safe_date is, if it is one
CalledDateIsValid ==
    call = "safe_date" /\ arg.element.hasText /\ arg.element.text \in ValidDateTexts

\* C12: safe_date gives a valid date text its calendar date, gives the same
\* date when a timezone offset, positive or negative, follows the text, and
\* gives unknown for an absent element.
C12_DateIgnoresTimezoneOffset ==
    /\ CalledDateIsValid =>
          /\ ret.some
          /\ \A z \in Offsets : safe_date(TextElem(arg.element.text \o <<z>>)) = ret
    /\ (call = "safe_date" /\ ~arg.element.present) => ~ret.some

\* C13: safe_text gives the element's text without the whitespace at its
\* ends, and the default when the element or its text is absent or the text
\* is empty after trimming.
C13_TextTrimmedOrDefault ==
    (call = "safe_text") =>
        LET has == arg.element.present /\ arg.element.hasText
                   /\ Trimmed(arg.element.text) # <<>>
        IN  IF variant = "boba"
            THEN ret = (IF has THEN Trimmed(arg.element.text) ELSE arg.default)
            ELSE ret = (IF has THEN SomeText(Trimmed(arg.element.text)) ELSE arg.default)


\* what a lifecycle flag element stands for: "1" is true, "0" is false, and an
\* absent element, like any other, is unknown
FlagOf(element) ==
    IF element = Yes THEN "True" ELSE IF element = No THEN "False" ELSE "None"

\* C14: in the program process_program builds, in either variant, each of
\* IsAccredited, IsCanceled and IsSuspended is what its own source element
\* stands for, whatever the other two are, and is unknown, not false, when
\* its element is absent.
C14_LifecycleFlagsIndependent ==
    call \in {"process_program", "process_program2"} =>
        /\ ret.IsAccredited = FlagOf(arg.prog_elem.IsAccredited)
        /\ ret.IsCanceled = FlagOf(arg.prog_elem.IsCanceled)
        /\ ret.IsSuspended = FlagOf(arg.prog_elem.IsSuspended)
        /\ ~arg.prog_elem.IsAccredited.present => ret.IsAccredited = "None"
        /\ ~arg.prog_elem.IsCanceled.present => ret.IsCanceled = "None"
        /\ ~arg.prog_elem.IsSuspended.present => ret.IsSuspended = "None"

\* C14 witness: a program of the second variant without IsAccredited element
\* that is canceled and not suspended
C14_Witness ==
    /\ call = "process_program2"
    /\ ~arg.prog_elem.IsAccredited.present
    /\ ret.IsAccredited = "None"
    /\ ret.IsCanceled = "True"
    /\ ret.IsSuspended = "False"


(***************************************************************************)
(* Properties of seeding and of the streaming driver                       *)
(***************************************************************************)

\* the rows of reference table t with code c
RowsWithCode(t, c) == {r \in Table(store, t) : r.code = c}

\* C15: in the first variant initialize_database never fails, so that every
\* run that reaches it goes on to parse its document, and once it has run
\* each reference table holds exactly one row for each of its codes.
C15_SeedingIsUpsert ==
    variant = "boba" =>
        /\ ev # "fatal"
        /\ h.dbops =>
              /\ \A i \in 1..Len(OrgTypeCodes) :
                    Cardinality(RowsWithCode("organization_types", OrgTypeCodes[i])) = 1
              /\ \A i \in 1..Len(EduLevelCodes) :
                    Cardinality(RowsWithCode("education_levels", EduLevelCodes[i])) = 1
              /\ \A i \in 1..Len(EduFormCodes) :
                    Cardinality(RowsWithCode("education_forms", EduFormCodes[i])) = 1


\* C16: whatever the outcome of a record, elem.clear() has run on its element
\* when the driver is at the next one.
C16_ElementReleased == h.cleared

\* entities staged and not committed: flushed rows and pending objects
Uncommitted == Cardinality(txn) + LenNew(new)

\* C17: between two records fewer entities than the batch threshold are
\* staged and not committed.
C17_BatchBelowThreshold == pc = "stream" => Uncommitted < BatchSize

\* C18: the build of a record issues no query to the store, and during
\* streaming the cache is the one filled from the reference rows before the
\* loop.
C18_NoQueryPerRecord ==
    pc = "stream" =>
        /\ ~h.queried
        /\ variant = "boba" => cache = BuildCache(store)


\* persisted branches of the first variant
Branches == {b \in Organizations : b.IsBranch = "True"}

\* organization o has the head identifier of branch b as primary identifier
\* or as INN
MatchesHead(o, b) ==
    \/ (IdOfText(b.HeadEduOrgId) # 0 /\ o.id = IdOfText(b.HeadEduOrgId))
    \/ o.INN = b.HeadEduOrgId

\* the Certificate element the last iteration of the loop processed
LastElem == files[xml_file].recs[idx - 1]

\* the last iteration processed a branch and no store operation failed
BranchProcessed ==
    /\ variant = "boba"
    /\ pc = "stream"
    /\ idx > 1
    /\ LastElem.ActualEducationOrganization.present
    /\ safe_bool(LastElem.ActualEducationOrganization.IsBranch) = "True"
    /\ ev \notin {"record_failed", "commit_failed"}

\* C19: a persisted branch has one parent_id; when set it is the id of a
\* persisted organization whose id or INN equals the branch's head
\* identifier; it is unset when no organization persisted up to the branch
\* matches; and a branch record is persisted, as one row, not skipped.
C19_BranchParentResolved ==
    /\ \A b \in Branches :
          /\ b.parent_id # 0 =>
                \E o \in Organizations : o.id = b.parent_id /\ MatchesHead(o, b)
          /\ (\A o \in Organizations : o.id <= b.id => ~MatchesHead(o, b))
                => b.parent_id = 0
    /\ BranchProcessed =>
          /\ ev # "skipped"
          /\ Cardinality(RowOf(store \cup txn, runs, <<idx - 1, 1>>)) = 1
          /\ RowOf(store \cup txn, runs, <<idx - 1, 1>>) \subseteq Branches

\* C19 witness: a branch was persisted without parent, no organization
\* matching its head identifier, beside a branch with a parent
C19_Witness ==
    /\ BranchProcessed
    /\ \E b \in Branches :
          /\ b.parent_id = 0
          /\ \A o \in Organizations : ~MatchesHead(o, b)
    /\ \E b \in Branches : b.parent_id # 0


\* rows and pending objects of the current run
ThisRun(rows) == {r \in Ingested(rows) : r.run = runs}
PendingEntries == {new[i] : i \in 1..Len(new)}

\* entity a comes before entity b in the document
Before(a, b) == a.rec < b.rec \/ (a.rec = b.rec /\ a.ord < b.ord)

\* positions <<supplement, program>> of the EducationalProgram elements of a
\* Certificate element, and the number of those at or before position p
ProgramPositions(elem) ==
    UNION {{<<i, j>> : j \in 1..Len(elem.Supplements[i])} : i \in 1..Len(elem.Supplements)}
Rank(elem, p) ==
    Cardinality({q \in ProgramPositions(elem) :
                    q[1] < p[1] \/ (q[1] = p[1] /\ q[2] <= p[2])})

\* C20: pending objects are in document order; every flushed row comes before
\* every pending object and every committed row of the run before every
\* uncommitted entity; in the first variant the rows of a table have
\* identifiers in document order, and the k-th program row of a record is
\* built from the k-th EducationalProgram element of the record.
C20_DocumentOrder ==
    pc = "stream" =>
        /\ \A i, j \in 1..Len(new) : i < j => Before(new[i], new[j])
        /\ \A t \in ThisRun(txn), u \in PendingEntries : Before(t, u)
        /\ \A c \in ThisRun(store), u \in ThisRun(txn) \cup PendingEntries : Before(c, u)
        /\ variant = "boba" =>
              /\ \A a, b \in ThisRun(store \cup txn) :
                    (a.tbl = b.tbl /\ a.id < b.id) => Before(a, b)
              /\ \A r \in ThisRun(store \cup txn) :
                    \A p \in ProgramPositions(files[xml_file].recs[r.rec]) :
                       r.ord = Rank(files[xml_file].recs[r.rec], p) + 1 =>
                          r.EduLevelName =
                             safe_text(files[xml_file].recs[r.rec]
                                          .Supplements[p[1]][p[2]].EduLevelName, <<>>)

\* C20 witness: the two programs of a record are persisted, in the order of
\* their supplements, before an organization of a later record
C20_Witness ==
    /\ pc = "stream"
    /\ variant = "boba"
    /\ \E a, b, c \in ThisRun(store \cup txn) :
          /\ a.tbl = "educational_programs" /\ b.tbl = "educational_programs"
          /\ a.rec = b.rec /\ a.ord = 2 /\ b.ord = 3 /\ a.id < b.id
          /\ a.EduLevelName # b.EduLevelName
          /\ c.tbl = "organizations" /\ c.rec > a.rec


(***************************************************************************)
(* Parent link of a branch                                                 *)
(***************************************************************************)

\* C21 as stated: the parent link of a persisted branch never refers to the
\* branch itself, whatever its head identifier is.
C21_ParentIsNotSelf ==
    \A b \in Branches : b.parent_id # b.id


(***************************************************************************)
(* Frame of the change detector                                            *)
(***************************************************************************)

\* the fingerprint state.json stores for path q: <<v>>, or << >> for none
StoredFor(sf, q) ==
    IF sf.exists /\ sf.kind = "dict" /\ q \in DOMAIN sf.map
    THEN <<sf.map[q]>>
    ELSE << >>

\* a step of check_for_updates: main was at the check and has left it
CheckStep == pc = "check" /\ pc' # "check"

\* C22: a call of check_for_updates(xml_file) leaves the fingerprint stored
\* for every other path as it was, whatever it returns.
C22_OtherFingerprintsKept ==
    [][CheckStep =>
          \A q \in Paths \ {xml_file} :
              StoredFor(stateFile', q) = StoredFor(stateFile, q)]_vars

=============================================================================
